---- MODULE Spec2Model ----
(***************************************************************************)
(* The resume tailoring pipeline and its application ledger               *)
(* (src/resume_tailor.py, class ResumeTailor; src/app.py, the Flask       *)
(* routes that share one ResumeTailor instance).                          *)
(*                                                                         *)
(* Python values: None is the empty tuple, a present value v is <<v>>.    *)
(* Every operation of the ledger is a pure operator from the state it     *)
(* reads to the state it leaves and what it returns or raises; the        *)
(* actions apply these operators to the variables.                        *)
(***************************************************************************)
EXTENDS Integers, Sequences, FiniteSets, TLC

VARIABLES
    applications,          \* self.applications: the in-memory ledger (a list of dicts)
    applications_log_file, \* content of <output_dir>/applications.json
    resumes_dir,           \* the files present in <output_dir>/resumes
    now,                   \* datetime.datetime.now(), in ticks
    run,                   \* the frame of the tailor_resume call in progress
    session,               \* the Flask session of the review flow
    result,                \* what the last finished call returned, raised or flashed
    job_title_bound,       \* whether the free name job_title of analyze_job_description resolves
    assigned_ids,          \* history: every id an append has assigned so far
    invocations            \* two invocations appending at the same time, step by step

vars == <<applications, applications_log_file, resumes_dir, now, run, session,
          result, job_title_bound, assigned_ids, invocations>>

----------------------------------------------------------------------------
(* Bounds of the model *)

MaxLedger == 3
MaxRecords == 1
MaxClock == 1
TicksPerDay == 2
MaxSkills == 2

----------------------------------------------------------------------------
(* Python values *)

None == <<>>
Some(v) == <<v>>

\* Truth value of an optional string: None and "" are falsy.
Truthy(x) == x # None /\ x[1] # ""

\* x or default
OrDefault(x, default) == IF Truthy(x) THEN x[1] ELSE default

\* datetime.now().strftime("%Y%m%d"): the day a tick falls in
DateStr(t) == t \div TicksPerDay

\* datetime.now().isoformat(): the full timestamp
IsoFormat(t) == t

----------------------------------------------------------------------------
(* File names *)

ResumeFile == "R.tex"
UntitledPosition == "Untitled Position"
ReviewNotes == "Created with user-approved changes"

\* Path(original_file).stem
Stem(file) == CASE file = "R.tex" -> "R"
                [] OTHER -> file

\* f"_{job_title.replace(' ', '_')}" if job_title else ""
JobSuffix(job_title) ==
    IF ~Truthy(job_title) THEN ""
    ELSE CASE job_title[1] = "Senior Engineer" -> "_Senior_Engineer"
           [] job_title[1] = "QA Lead" -> "_QA_Lead"
           [] OTHER -> "_other"

\* f"{base_name}_tailored{job_suffix}_{date_str}.tex" under self.resumes_dir
TailoredPath(original_file, job_title, t) ==
    [dir |-> "resumes", pre |-> "", base |-> Stem(original_file), mid |-> "_tailored",
     job |-> JobSuffix(job_title), date |-> Some(DateStr(t)), ext |-> ".tex"]

\* f"tailored_{os.path.basename(resume_file_path)}" under tailor.resumes_dir
ReviewPath(resume_file_path) ==
    [dir |-> "resumes", pre |-> "tailored_", base |-> Stem(resume_file_path), mid |-> "",
     job |-> "", date |-> None, ext |-> ".tex"]

\* f"{base_name}.pdf" for the stem of a .tex path
PdfPath(tex_path) == [tex_path EXCEPT !.ext = ".pdf"]

----------------------------------------------------------------------------
(* The ledger file: json.dump / json.load *)

JNull == <<"null">>
JStr(s) == <<"string", s>>
JNum(n) == <<"number", n>>
JBool(b) == IF b THEN <<"true">> ELSE <<"false">>
\* Mutant of JOptStr: None is written as the empty string
JOptStrEmpty(x) == IF x = None THEN JStr("") ELSE JStr(x[1])

\* json.dump of an optional string: null for None
JOptStr(x) == IF x = None THEN JNull ELSE JStr(x[1])

JsonDumpRecord(app) ==
    [id |-> JNum(app.id),
     date_created |-> JStr(app.date_created),
     original_resume |-> JStr(app.original_resume),
     tailored_resume |-> JStr(app.tailored_resume),
     pdf_resume |-> JOptStr(app.pdf_resume),
     job_title |-> JStr(app.job_title),
     applied |-> JBool(app.applied),
     application_date |-> JOptStr(app.application_date),
     company |-> JOptStr(app.company),
     job_link |-> JOptStr(app.job_link),
     notes |-> JOptStr(app.notes)]

JsonDump(apps) == [i \in DOMAIN apps |-> JsonDumpRecord(apps[i])]

JLoadOpt(j) == IF j = JNull THEN None ELSE Some(j[2])

JsonLoadRecord(j) ==
    [id |-> j.id[2],
     date_created |-> j.date_created[2],
     original_resume |-> j.original_resume[2],
     tailored_resume |-> j.tailored_resume[2],
     pdf_resume |-> JLoadOpt(j.pdf_resume),
     job_title |-> j.job_title[2],
     applied |-> (j.applied = <<"true">>),
     application_date |-> JLoadOpt(j.application_date),
     company |-> JLoadOpt(j.company),
     job_link |-> JLoadOpt(j.job_link),
     notes |-> JLoadOpt(j.notes)]

JsonLoad(text) == [i \in DOMAIN text |-> JsonLoadRecord(text[i])]

FileAbsent == [kind |-> "absent", text |-> <<>>]
FileJson(apps) == [kind |-> "json", text |-> JsonDump(apps)]
FilePartial == [kind |-> "partial", text |-> <<>>]

\* Mutant of load_applications_log: the JSONDecodeError is not caught
load_applications_log_uncaught(file) ==
    IF file.kind = "absent" THEN [apps |-> <<>>, exc |-> ""]
    ELSE IF file.kind = "json" THEN [apps |-> JsonLoad(file.text), exc |-> ""]
    ELSE [apps |-> <<>>, exc |-> "JSONDecodeError"]

\* _load_applications_log: [] when the file is absent; json.load when it is there, and
\* [] when json.load raises JSONDecodeError
load_applications_log(file) ==
    IF file.kind = "absent" THEN [apps |-> <<>>, exc |-> ""]
    ELSE IF file.kind = "json" THEN [apps |-> JsonLoad(file.text), exc |-> ""]
    ELSE [apps |-> <<>>, exc |-> ""]

\* _save_applications_log: open(..., 'w') truncates the file, json.dump writes it.
\* The environment decides whether the open or the write fails.
SaveOutcomes == {"ok", "open_fails", "write_fails"}

save_applications_log(apps, file, out) ==
    CASE out = "ok" -> [file |-> FileJson(apps), exc |-> ""]
      [] out = "open_fails" -> [file |-> file, exc |-> "OSError"]
      [] out = "write_fails" -> [file |-> FilePartial, exc |-> "OSError"]

----------------------------------------------------------------------------
(* Ledger records *)

IdsOf(apps) == {apps[i].id : i \in DOMAIN apps}

\* Mutant of NextId: the count itself, without the + 1
NextIdFromZero(apps) == Len(apps)

\* "id": len(self.applications) + 1
NextId(apps) == Len(apps) + 1

\* job_entry of save_tailored_resume
JobEntry(apps, original_file, new_path, pdf_output, job_title, t) ==
    [id |-> NextId(apps),
     date_created |-> IsoFormat(t),
     original_resume |-> original_file,
     tailored_resume |-> new_path,
     pdf_resume |-> pdf_output,
     job_title |-> OrDefault(job_title, UntitledPosition),
     applied |-> FALSE,
     application_date |-> None,
     company |-> None,
     job_link |-> None,
     notes |-> None]

\* _compile_resume_to_pdf: the path of the PDF, or None when pdflatex fails, leaves
\* no PDF or the copy fails; the temporary directory is made outside the try block.
PdfOutcomes == {"pdf", "no_pdf", "raise"}

\* What save_tailored_resume meets: the write of the .tex file, the PDF compilation,
\* the save of the ledger. A step that is never reached is written "-".
StrOutcomes ==
    {[write |-> "raise", pdf |-> "-", save |-> "-"]}
    \cup {[write |-> "ok", pdf |-> "raise", save |-> "-"]}
    \cup {[write |-> "ok", pdf |-> p, save |-> s] : p \in {"pdf", "no_pdf"}, s \in SaveOutcomes}

\* save_tailored_resume(latex_content, original_file, job_title) at time t
save_tailored_resume(apps, file, dir, original_file, job_title, t, out) ==
    LET new_path == TailoredPath(original_file, job_title, t)
        dir1 == dir \cup {new_path}
        pdf_output == IF out.pdf = "pdf" THEN Some(PdfPath(new_path)) ELSE None
        dir2 == IF out.pdf = "pdf" THEN dir1 \cup {PdfPath(new_path)} ELSE dir1
        apps1 == Append(apps, JobEntry(apps, original_file, new_path, pdf_output, job_title, t))
        sv == save_applications_log(apps1, file, out.save)
    IN  CASE out.write = "raise" ->
               [apps |-> apps, file |-> file, dir |-> dir, ret |-> None, exc |-> "OSError"]
          [] out.write = "ok" /\ out.pdf = "raise" ->
               [apps |-> apps, file |-> file, dir |-> dir1, ret |-> None, exc |-> "OSError"]
          [] OTHER ->
               [apps |-> apps1, file |-> sv.file, dir |-> dir2,
                ret |-> IF sv.exc = "" THEN Some(new_path) ELSE None, exc |-> sv.exc]

\* Mutant of MarkApplied: marking a record also stamps its creation date anew
MarkAppliedRestamped(app, applied, t) ==
    IF applied
    THEN [app EXCEPT !.applied = TRUE, !.application_date = Some(IsoFormat(t)),
                     !.date_created = IsoFormat(t)]
    ELSE app

\* Mutant of MarkApplied: an argument that is not true takes the mark away
MarkAppliedCleared(app, applied, t) ==
    IF applied
    THEN [app EXCEPT !.applied = TRUE, !.application_date = Some(IsoFormat(t))]
    ELSE [app EXCEPT !.applied = FALSE]

\* Mutant of MarkApplied: the record is marked but not dated
MarkAppliedUndated(app, applied, t) ==
    IF applied THEN [app EXCEPT !.applied = TRUE] ELSE app

\* Mutant of MarkApplied: the record is marked whatever the argument says
MarkAppliedAlways(app, applied, t) ==
    [app EXCEPT !.applied = TRUE, !.application_date = Some(IsoFormat(t))]

\* Mutant of MarkApplied: the argument is assigned, so False clears the mark
MarkAppliedAssigned(app, applied, t) ==
    [app EXCEPT !.applied = applied,
                !.application_date = IF applied THEN Some(IsoFormat(t)) ELSE None]

\* if applied: app["applied"] = True; app["application_date"] = now
MarkApplied(app, applied, t) ==
    IF applied
    THEN [app EXCEPT !.applied = TRUE, !.application_date = Some(IsoFormat(t))]
    ELSE app

\* Mutant of MergeField: the argument is assigned whether or not it is empty
MergeFieldAssigned(old, value) == value

\* if value: app[field] = value
MergeField(old, value) == IF Truthy(value) THEN value ELSE old

\* Mutant of FirstWithId: an unknown id falls back on the latest record
FirstWithIdOrLatest(apps, resume_id) ==
    LET hits == {i \in DOMAIN apps : apps[i].id = resume_id}
    IN  IF hits = {} THEN Len(apps) ELSE CHOOSE i \in hits : \A j \in hits : i <= j

\* The first record of the list whose id is resume_id (0 when there is none)
FirstWithId(apps, resume_id) ==
    LET hits == {i \in DOMAIN apps : apps[i].id = resume_id}
    IN  IF hits = {} THEN 0 ELSE CHOOSE i \in hits : \A j \in hits : i <= j

\* update_application_status(resume_id, applied, company, job_link, notes) at time t
update_application_status(apps, file, resume_id, applied, company, job_link, notes, t, out) ==
    LET i == FirstWithId(apps, resume_id)
        a1 == MarkApplied(apps[i], applied, t)
        a2 == [a1 EXCEPT !.company = MergeField(a1.company, company),
                         !.job_link = MergeField(a1.job_link, job_link),
                         !.notes = MergeField(a1.notes, notes)]
        apps1 == [apps EXCEPT ![i] = a2]
        sv == save_applications_log(apps1, file, out)
    IN  IF i = 0
        THEN [apps |-> apps, file |-> file, ret |-> "False", exc |-> ""]
        ELSE [apps |-> apps1, file |-> sv.file,
              ret |-> IF sv.exc = "" THEN "True" ELSE "", exc |-> sv.exc]

\* applied=True is the default of update_application_status
DefaultApplied == TRUE

\* Mutant of delete_selected: the filter is inverted, the selected records are kept
delete_selected_inverted(apps, file, selected_ids, out) ==
    LET apps1 == SelectSeq(apps, LAMBDA app : app.id \in selected_ids)
        sv == save_applications_log(apps1, file, out)
    IN  [apps |-> apps1, file |-> sv.file,
         ret |-> IF sv.exc = "" THEN "deleted" ELSE "", exc |-> sv.exc]

\* bulk_actions, action == 'delete'
delete_selected(apps, file, selected_ids, out) ==
    LET apps1 == SelectSeq(apps, LAMBDA app : app.id \notin selected_ids)
        sv == save_applications_log(apps1, file, out)
    IN  [apps |-> apps1, file |-> sv.file,
         ret |-> IF sv.exc = "" THEN "deleted" ELSE "", exc |-> sv.exc]

----------------------------------------------------------------------------
(* Gateway responses and their extraction.  A response text is a sequence of
   tokens: braces, prose, members of a JSON object, code fences, newlines and
   document lines. *)

LB == [t |-> "{"]
RB == [t |-> "}"]
Prose == [t |-> "prose"]
Member(key, val) == [t |-> "member", key |-> key, val |-> val]
Fence == [t |-> "fence"]   \* three backquotes
Latex == [t |-> "latex"]
Label == [t |-> "label"]   \* a language label other than latex
NL == [t |-> "newline"]
Line(s) == [t |-> "line", text |-> s]

Positions(text, tok) == {i \in DOMAIN text : text[i] = tok}
MinOf(S) == CHOOSE i \in S : \A j \in S : i <= j
MaxOf(S) == CHOOSE i \in S : \A j \in S : i >= j

\* re.search of the pattern brace, anything, brace: from the first "{" to the last "}"
JsonSpan(text) ==
    LET opens == Positions(text, LB)
        closes == {j \in Positions(text, RB) : opens # {} /\ j > MinOf(opens)}
    IN  IF opens = {} \/ closes = {} THEN None
        ELSE Some(SubSeq(text, MinOf(opens), MaxOf(closes)))

\* Whether json.loads accepts the span: one object of members
ValidJson(span) ==
    /\ Len(span) >= 2
    /\ span[1] = LB
    /\ span[Len(span)] = RB
    /\ \A i \in 2..(Len(span) - 1) : span[i].t = "member"

\* json.loads of a valid span: the dict of its members, a repeated key keeping the last
JsonLoads(span) ==
    LET inner == 2..(Len(span) - 1)
        keys == {span[i].key : i \in inner}
    IN  [k \in keys |-> span[MaxOf({i \in inner : span[i].key = k})].val]

\* Mutant of analyze_job_description: a failed Gateway call is answered with an empty
\* analysis and the run goes on
analyze_job_description_fallback(gateway, bound) ==
    IF ~gateway.ok
    THEN [ret |-> Some(<<>>), exc |-> "", response |-> None]
    ELSE IF ~bound
    THEN [ret |-> None, exc |-> "NameError", response |-> Some(gateway.text)]
    ELSE LET span == JsonSpan(gateway.text)
         IN  IF span = None
             THEN [ret |-> None, exc |-> "ValueError", response |-> Some(gateway.text)]
             ELSE IF ~ValidJson(span[1])
             THEN [ret |-> None, exc |-> "JSONDecodeError", response |-> Some(gateway.text)]
             ELSE [ret |-> Some(JsonLoads(span[1])), exc |-> "", response |-> Some(gateway.text)]

\* analyze_job_description: the Gateway call, the token log under the free name
\* job_title (line 309), then the JSON-mode extraction.
analyze_job_description(gateway, bound) ==
    IF ~gateway.ok
    THEN [ret |-> None, exc |-> "APIError", response |-> None]
    ELSE IF ~bound
    THEN [ret |-> None, exc |-> "NameError", response |-> Some(gateway.text)]
    ELSE LET span == JsonSpan(gateway.text)
         IN  IF span = None
             THEN [ret |-> None, exc |-> "ValueError", response |-> Some(gateway.text)]
             ELSE IF ~ValidJson(span[1])
             THEN [ret |-> None, exc |-> "JSONDecodeError", response |-> Some(gateway.text)]
             ELSE [ret |-> Some(JsonLoads(span[1])), exc |-> "", response |-> Some(gateway.text)]

HasSub(text, pat) ==
    \E i \in 1..(Len(text) - Len(pat) + 1) : SubSeq(text, i, i + Len(pat) - 1) = pat

\* re.search of an opening, a lazy interior, a newline and a fence: the leftmost
\* opening that some later newline and fence close, and the shortest interior;
\* None when nothing matches
FenceSearch(text, open) ==
    LET closesAt(j) == j + 1 <= Len(text) /\ text[j] = NL /\ text[j + 1] = Fence
        starts == {i \in 1..(Len(text) - Len(open) + 1) :
                      /\ SubSeq(text, i, i + Len(open) - 1) = open
                      /\ \E j \in (i + Len(open))..Len(text) : closesAt(j)}
    IN  IF starts = {} THEN None
        ELSE LET i == MinOf(starts)
                 j == MinOf({k \in (i + Len(open))..Len(text) : closesAt(k)})
             IN  Some(SubSeq(text, i + Len(open), j - 1))

\* The document-mode extraction of customize_resume and customize_resume_with_approved;
\* .group(1) of a search that found nothing raises AttributeError
ExtractDocument(text) ==
    IF HasSub(text, <<Fence, Latex>>)
    THEN LET m == FenceSearch(text, <<Fence, Latex, NL>>)
         IN  IF m = None THEN [ret |-> None, exc |-> "AttributeError"]
             ELSE [ret |-> m, exc |-> ""]
    ELSE IF HasSub(text, <<Fence>>)
    THEN LET m == FenceSearch(text, <<Fence, NL>>)
         IN  IF m = None THEN [ret |-> None, exc |-> "AttributeError"]
             ELSE [ret |-> m, exc |-> ""]
    ELSE [ret |-> Some(text), exc |-> ""]

\* customize_resume / customize_resume_with_approved: the Gateway call, then the
\* document-mode extraction
customize_resume(gateway) ==
    IF ~gateway.ok
    THEN [ret |-> None, exc |-> "APIError", response |-> None]
    ELSE LET x == ExtractDocument(gateway.text)
         IN  [ret |-> x.ret, exc |-> x.exc, response |-> Some(gateway.text)]

----------------------------------------------------------------------------
(* The pipeline: ResumeTailor.tailor_resume *)

\* The frame of a tailor_resume call: its arguments, its locals, the stage it is in
IdleRun ==
    [stage |-> "idle", status |-> "idle", job_title |-> None, company |-> None,
     original_content |-> None, response |-> None, analysis |-> None,
     tailored_content |-> None, is_valid |-> None, new_file_path |-> None, exc |-> "",
     gateway_calls |-> 0]

\* An exception leaves tailor_resume: the locals of the call are gone, what stays is the
\* stage it left from, the verdict of the validator if there was one, and the exception
Raise(frame, e) ==
    [IdleRun EXCEPT !.status = "error", !.stage = frame.stage, !.is_valid = frame.is_valid,
                    !.exc = e, !.gateway_calls = frame.gateway_calls]

\* tailor_resume returns new_file_path
Return(frame, new_file_path) ==
    [IdleRun EXCEPT !.status = "done", !.stage = frame.stage, !.is_valid = frame.is_valid,
                    !.new_file_path = new_file_path, !.gateway_calls = frame.gateway_calls]

\* validate_latex: True iff pdflatex exits with 0; the temporary directory and the
\* write of the temporary file are outside its try block
ValidateOutcomes == {"valid", "invalid", "raise"}

\* Mutant of AfterValidate: the verdict is recorded and not acted upon
AfterValidateIgnored(frame, is_valid) ==
    [frame EXCEPT !.is_valid = Some(is_valid), !.stage = "PERSIST"]

\* Lines 650-657: raise ValueError unless the document compiled
AfterValidate(frame, is_valid) ==
    IF is_valid
    THEN [frame EXCEPT !.is_valid = Some(TRUE), !.stage = "PERSIST"]
    ELSE Raise([frame EXCEPT !.is_valid = Some(FALSE)], "ValueError: does not compile")

\* Lines 659-665: save_tailored_resume, then the company stamped on the last record
tailor_resume_persist(apps, file, dir, job_title, company, t, out, out2) ==
    LET r == save_tailored_resume(apps, file, dir, ResumeFile, job_title, t, out)
        latest_id == r.apps[Len(r.apps)].id
        u == update_application_status(r.apps, r.file, latest_id, FALSE, company,
                                       None, None, t, out2)
    IN  IF r.exc # "" THEN r
        ELSE IF Truthy(company) /\ Len(r.apps) > 0
        THEN [apps |-> u.apps, file |-> u.file, dir |-> r.dir,
              ret |-> IF u.exc = "" THEN r.ret ELSE None, exc |-> u.exc]
        ELSE r

----------------------------------------------------------------------------
(* The review flow of src/app.py *)

\* analysis.get(key, default) on the dict json.loads returned
Get(analysis, key, default) == IF key \in DOMAIN analysis THEN analysis[key] ELSE default

\* list.index(x): the position of the first occurrence, counted from 0
Index(list, x) == MinOf({i \in DOMAIN list : list[i] = x}) - 1

\* k.replace(' ', '_')
Underscored(k) == CASE k = "Software Developer" -> "Software_Developer"
                    [] k = "Work Experience" -> "Work_Experience"
                    [] OTHER -> k

\* The entries of a dict (a set of key-value pairs) whose checkbox is in the form
Checked(dict, prefix, form) == {kv \in dict : <<prefix, Underscored(kv[1])>> \in form}

\* Mutant of ApprovedChanges: title suggestions are filtered like the other dicts
ApprovedChangesWithTitles(analysis, form) ==
    [key_skills |->
        SelectSeq(Get(analysis, "key_skills", <<>>),
                  LAMBDA skill : <<"skill", Index(analysis["key_skills"], skill)>> \in form),
     missing_skills |->
        SelectSeq(Get(analysis, "missing_skills", <<>>),
                  LAMBDA skill : <<"missing", Index(analysis["missing_skills"], skill)>> \in form),
     title_suggestions |-> Checked(Get(analysis, "title_suggestions", {}), "title", form),
     experience_suggestions |-> Checked(Get(analysis, "experience_suggestions", {}), "exp", form),
     content_additions |-> Checked(Get(analysis, "content_additions", {}), "add", form)]

\* approved_changes of review_changes: the suggestions whose checkbox the form carries;
\* title_suggestions is the empty dict whatever the form carries
ApprovedChanges(analysis, form) ==
    [key_skills |->
        SelectSeq(Get(analysis, "key_skills", <<>>),
                  LAMBDA skill : <<"skill", Index(analysis["key_skills"], skill)>> \in form),
     missing_skills |->
        SelectSeq(Get(analysis, "missing_skills", <<>>),
                  LAMBDA skill : <<"missing", Index(analysis["missing_skills"], skill)>> \in form),
     title_suggestions |-> {},
     experience_suggestions |-> Checked(Get(analysis, "experience_suggestions", {}), "exp", form),
     content_additions |-> Checked(Get(analysis, "content_additions", {}), "add", form)]

\* Mutant of PromptBlocks: every category gets its header, with or without items
PromptBlocksAll(approved_changes) ==
    <<[heading |-> "Key Skills to Emphasize", items |-> Get(approved_changes, "key_skills", <<>>)],
      [heading |-> "Missing Skills to Add", items |-> Get(approved_changes, "missing_skills", <<>>)],
      [heading |-> "Job Title Modifications",
       items |-> Get(approved_changes, "title_suggestions", {})],
      [heading |-> "Experience Description Modifications",
       items |-> Get(approved_changes, "experience_suggestions", {})],
      [heading |-> "Content to Add", items |-> Get(approved_changes, "content_additions", {})]>>

\* The blocks customize_resume_with_approved puts in its prompt, in order: one for
\* each entry of approved_changes that is not empty
PromptBlocks(approved_changes) ==
    LET block(heading, items, empty) ==
            IF items = empty THEN <<>> ELSE <<[heading |-> heading, items |-> items]>>
    IN  block("Key Skills to Emphasize", Get(approved_changes, "key_skills", <<>>), <<>>)
        \o block("Missing Skills to Add", Get(approved_changes, "missing_skills", <<>>), <<>>)
        \o block("Job Title Modifications", Get(approved_changes, "title_suggestions", {}), {})
        \o block("Experience Description Modifications",
                 Get(approved_changes, "experience_suggestions", {}), {})
        \o block("Content to Add", Get(approved_changes, "content_additions", {}), {})

\* The checkboxes the review page can send for an analysis
FormFields(analysis) ==
    {<<"skill", i - 1>> : i \in DOMAIN Get(analysis, "key_skills", <<>>)}
    \cup {<<"missing", i - 1>> : i \in DOMAIN Get(analysis, "missing_skills", <<>>)}
    \cup {<<"title", Underscored(kv[1])>> : kv \in Get(analysis, "title_suggestions", {})}
    \cup {<<"exp", Underscored(kv[1])>> : kv \in Get(analysis, "experience_suggestions", {})}
    \cup {<<"add", Underscored(kv[1])>> : kv \in Get(analysis, "content_additions", {})}

NoSession == [pending |-> FALSE, analysis |-> None, job_title |-> "", company |-> ""]

\* What one POST of /review meets
ReviewOutcomes(texts) ==
    LET base == [read |-> "ok", gateway |-> [ok |-> FALSE, text |-> <<>>], validate |-> "-",
                 write |-> "-", pdf |-> "-", save |-> "-"]
    IN  {[base EXCEPT !.read = "raise"]} \cup {base}
        \cup {[base EXCEPT !.gateway = [ok |-> TRUE, text |-> x], !.validate = v] :
                 x \in texts, v \in {"invalid", "raise"}}
        \cup {[base EXCEPT !.gateway = [ok |-> TRUE, text |-> x], !.validate = "valid",
                           !.write = "raise"] : x \in texts}
        \cup {[base EXCEPT !.gateway = [ok |-> TRUE, text |-> x], !.validate = "valid",
                           !.write = "ok", !.pdf = "raise"] : x \in texts}
        \cup {[base EXCEPT !.gateway = [ok |-> TRUE, text |-> x], !.validate = "valid",
                           !.write = "ok", !.pdf = q, !.save = sv] :
                 x \in texts, q \in {"pdf", "no_pdf"}, sv \in SaveOutcomes}

\* job_entry of review_changes
ReviewEntry(apps, resume_file_path, output_path, pdf_resume, job_title, company, t) ==
    [id |-> NextId(apps),
     date_created |-> IsoFormat(t),
     original_resume |-> resume_file_path,
     tailored_resume |-> output_path,
     pdf_resume |-> pdf_resume,
     job_title |-> OrDefault(Some(job_title), UntitledPosition),
     applied |-> FALSE,
     application_date |-> None,
     company |-> Some(company),
     job_link |-> None,
     notes |-> Some(ReviewNotes)]

\* Mutant of RedirectToReview: going back to the review page drops the pending state
RedirectToReviewCleared(sess, flash) == [session |-> NoSession, flash |-> flash]

\* flash(...); return redirect(url_for('review_changes')): the session is not touched
RedirectToReview(sess, flash) == [session |-> sess, flash |-> flash]

\* review_changes, POST, with analysis data in the session
review_changes_post(apps, file, dir, sess, t, out) ==
    LET same(flash, e) == [apps |-> apps, file |-> file, dir |-> dir,
                           session |-> RedirectToReview(sess, flash).session,
                           flash |-> RedirectToReview(sess, flash).flash, exc |-> e]
        c == customize_resume(out.gateway)
        output_path == ReviewPath(ResumeFile)
        pdf_output == PdfPath(output_path)
        dir1 == dir \cup {output_path}
        dir2 == IF out.pdf = "pdf" THEN dir1 \cup {pdf_output} ELSE dir1
        entry == ReviewEntry(apps, ResumeFile, output_path,
                             IF pdf_output \in dir2 THEN Some(pdf_output) ELSE None,
                             sess.job_title, sess.company, t)
        apps1 == Append(apps, entry)
        sv == save_applications_log(apps1, file, out.save)
    IN  CASE out.read = "raise" -> same("", "OSError")
          [] out.read = "ok" /\ c.exc # "" -> same("Error tailoring resume", "")
          [] out.read = "ok" /\ c.exc = "" /\ out.validate = "invalid" ->
               same("LaTeX compilation failed", "")
          [] out.read = "ok" /\ c.exc = "" /\ out.validate = "raise" ->
               same("Error tailoring resume", "")
          [] out.read = "ok" /\ c.exc = "" /\ out.validate = "valid" /\ out.write = "raise" ->
               same("Error tailoring resume", "")
          [] out.read = "ok" /\ c.exc = "" /\ out.validate = "valid" /\ out.write = "ok"
             /\ out.pdf = "raise" ->
               [same("Error tailoring resume", "") EXCEPT !.dir = dir1]
          [] OTHER ->
               IF sv.exc # ""
               THEN [apps |-> apps1, file |-> sv.file, dir |-> dir2, session |-> sess,
                     flash |-> "Error tailoring resume", exc |-> ""]
               ELSE [apps |-> apps1, file |-> sv.file, dir |-> dir2, session |-> NoSession,
                     flash |-> "redirect result", exc |-> ""]

\* bulk_actions, action 'apply' or 'unapply': update_application_status for each selected
\* id in turn, with the fields the record has; the k-th save is the one that fails
RECURSIVE bulk_update(_, _, _, _, _, _, _)
bulk_update(apps, file, ids, applied, t, fail_at, fail) ==
    IF ids = <<>> THEN [apps |-> apps, file |-> file, exc |-> ""]
    ELSE LET i == FirstWithId(apps, Head(ids))
             out == IF fail_at = 1 THEN fail ELSE "ok"
             u == update_application_status(apps, file, Head(ids), applied,
                                            apps[i].company, apps[i].job_link,
                                            apps[i].notes, t, out)
         IN  IF i = 0
             THEN bulk_update(apps, file, Tail(ids), applied, t, fail_at, fail)
             ELSE IF u.exc # "" THEN [apps |-> u.apps, file |-> u.file, exc |-> u.exc]
             ELSE bulk_update(u.apps, u.file, Tail(ids), applied, t, fail_at - 1, fail)

----------------------------------------------------------------------------
(* Inputs *)

JobTitleArgs == {None, Some("Senior Engineer")}
CompanyArgs == {None, Some(""), Some("Acme")}
JobLinkArgs == {None, Some(""), Some("https://jobs/1")}
NotesArgs == {None, Some(""), Some("call back")}

\* The optional arguments of one update_application_status call
AllNone == [company |-> None, job_link |-> None, notes |-> None]
UpdateArgs ==
    {AllNone,
     [AllNone EXCEPT !.company = Some("")],
     [AllNone EXCEPT !.notes = Some("call back")],
     [company |-> Some("Acme"), job_link |-> Some("https://jobs/1"), notes |-> Some("")]}

\* The fields of the form of /update: request.form.get(name, '').strip()
FormArgs ==
    {[company |-> Some(""), job_link |-> Some(""), notes |-> Some("")],
     [company |-> Some("Acme"), job_link |-> Some(""), notes |-> Some("call back")],
     [company |-> Some(""), job_link |-> Some("https://jobs/1"), notes |-> Some("")]}

SetOf(ids) == {ids[i] : i \in DOMAIN ids}
SelectedIdLists(ids) == {<<i>> : i \in ids} \cup {p \in ids \X ids : p[1] # p[2]}

CannedAnalysis ==
    <<Member("exact_job_title", "Senior Engineer"),
      Member("key_skills", <<"python", "sql">>),
      Member("title_suggestions", {<<"Software Developer", "Senior Engineer">>})>>

AnalysisTexts ==
    {<<Prose>>,
     <<LB, Prose, RB>>,
     <<Prose, LB>> \o CannedAnalysis \o <<RB, Prose>>}

DocTexts ==
    {<<Line("doc")>>,
     <<Prose, NL, Fence, Latex, NL, Line("doc"), NL, Fence>>,
     <<Fence, Latex, Line("doc")>>}

\* Response texts around a code block: what comes before it, how the fence opens, the
\* newline after the opening, the document, the newline before the closing, the closing
FencedTexts ==
    {lead \o open \o nl1 \o body \o nl2 \o close :
        lead \in {<<>>, <<Line("intro"), NL>>},
        open \in {<<>>, <<Fence>>, <<Fence, Latex>>, <<Fence, Label>>},
        nl1 \in {<<>>, <<NL>>},
        body \in {<<>>, <<Line("doc")>>},
        nl2 \in {<<>>, <<NL>>},
        close \in {<<>>, <<Fence>>}}

\* Response texts around a JSON object: prose, braces and members in and out of place
BracedTexts ==
    {lead \o open \o inner \o close \o tail :
        lead \in {<<>>, <<Prose>>, <<RB>>},
        open \in {<<>>, <<LB>>},
        inner \in {<<>>, <<Member("exact_job_title", "Senior Engineer")>>, <<Prose>>},
        close \in {<<>>, <<RB>>},
        tail \in {<<>>, <<Prose>>, <<LB>>}}

\* Two invocations that append at the same time.  heap says what they share: "own" for
\* two processes, each with the list its __init__ loaded from the file, "shared" for two
\* requests of one server process, both on the list of the one instance `tailor`.
\* base is the number of records in the file when the two were started.
Invocations == 1..2
IdleInvocation == [pc |-> "idle", applications |-> <<>>, job_entry |-> None]
NoInvocations ==
    [heap |-> "own", base |-> 0, overlap |-> FALSE, frame |-> [i \in Invocations |-> IdleInvocation]]

\* The job title each of the two invocations is given
TitleOf(i) == IF i = 1 THEN Some("Senior Engineer") ELSE None

\* Mutant of AppendEntry: the id is assigned anew when the record enters the list
AppendEntryRenumbered(apps, job_entry) == Append(apps, [job_entry EXCEPT !.id = Len(apps) + 1])

\* self.applications.append(job_entry)
AppendEntry(apps, job_entry) == Append(apps, job_entry)

\* Analyses a review can be about: key_skills absent or a list of up to MaxSkills skills
\* (the same skill may come twice), experience_suggestions a dict over two section names
SkillLists == UNION {[1..n -> {"python", "sql"}] : n \in 0..MaxSkills}
SectionDicts == SUBSET {<<"Work Experience", "lead">>, <<"Work_Experience", "ship">>}
ReviewAnalyses ==
    {("key_skills" :> ks) @@ ("experience_suggestions" :> es) : ks \in SkillLists, es \in SectionDicts}
    \cup {("experience_suggestions" :> es) : es \in SectionDicts}

\* The suggestion categories of an approved-changes dict: key, header in the prompt,
\* empty value, a value with suggestions
Categories ==
    <<[key |-> "key_skills", heading |-> "Key Skills to Emphasize", empty |-> <<>>,
       full |-> <<"python", "sql">>],
      [key |-> "missing_skills", heading |-> "Missing Skills to Add", empty |-> <<>>,
       full |-> <<"docker">>],
      [key |-> "title_suggestions", heading |-> "Job Title Modifications", empty |-> {},
       full |-> {<<"Software Developer", "Senior Engineer">>}],
      [key |-> "experience_suggestions", heading |-> "Experience Description Modifications",
       empty |-> {}, full |-> {<<"Work Experience", "lead">>, <<"Projects", "ship">>}],
      [key |-> "content_additions", heading |-> "Content to Add", empty |-> {},
       full |-> {<<"Skills", "add SQL">>}]>>

\* Approved-changes dicts: each category missing, empty or with suggestions
ApprovedSubsets ==
    {[key \in {Categories[c].key : c \in {c \in DOMAIN Categories : choice[c] # "missing"}} |->
         LET c == CHOOSE c \in DOMAIN Categories : Categories[c].key = key
         IN  IF choice[c] = "empty" THEN Categories[c].empty ELSE Categories[c].full] :
     choice \in [DOMAIN Categories -> {"missing", "empty", "full"}]}

GatewayOutcomes(texts) ==
    {[ok |-> FALSE, text |-> <<>>]} \cup {[ok |-> TRUE, text |-> x] : x \in texts}

----------------------------------------------------------------------------
(* Actions.  Each takes the sets its inputs are drawn from. *)

Done(op, ret, exc) == result' = [op |-> op, ret |-> ret, exc |-> exc]

\* The ids an append has handed out
Assigned(apps1) ==
    IF Len(apps1) > Len(applications)
    THEN assigned_ids \cup {apps1[Len(apps1)].id}
    ELSE assigned_ids

Ledger(r) ==
    /\ applications' = r.apps
    /\ applications_log_file' = r.file
    /\ assigned_ids' = Assigned(r.apps)

\* Time passes
Tick ==
    /\ now < MaxClock
    /\ now' = now + 1
    /\ UNCHANGED <<applications, applications_log_file, resumes_dir, run, session,
                   result, job_title_bound, assigned_ids, invocations>>

\* ResumeTailor.__init__ in a new process: the ledger is loaded from the file
Restart ==
    /\ LET l == load_applications_log(applications_log_file)
       IN  /\ applications' = l.apps
           /\ Done("__init__", "", l.exc)
    /\ run' = IdleRun
    /\ UNCHANGED <<applications_log_file, resumes_dir, now, session, job_title_bound,
                   assigned_ids, invocations>>

\* tailor_resume(resume_file, job_description, job_title, company) is called
TailorResumeCall(titles, companies) ==
    /\ run.status # "running"
    /\ \E job_title \in titles, company \in companies :
          run' = [IdleRun EXCEPT !.stage = "READ", !.status = "running",
                                 !.job_title = job_title, !.company = company]
    /\ Done("tailor_resume", "running", "")
    /\ UNCHANGED <<applications, applications_log_file, resumes_dir, now, session,
                   job_title_bound, assigned_ids, invocations>>

Running(stage) == run.status = "running" /\ run.stage = stage

\* READ: read_latex_resume
ReadStage ==
    /\ Running("READ")
    /\ \E ok \in BOOLEAN :
          run' = IF ok THEN [run EXCEPT !.original_content = Some("tex"), !.stage = "ANALYZE"]
                 ELSE Raise(run, "OSError")
    /\ Done("tailor_resume", "running", "")
    /\ UNCHANGED <<applications, applications_log_file, resumes_dir, now, session,
                   job_title_bound, assigned_ids, invocations>>

\* ANALYZE: analyze_job_description
AnalyzeStage ==
    /\ Running("ANALYZE")
    /\ \E gateway \in GatewayOutcomes(AnalysisTexts) :
          LET a == analyze_job_description(gateway, job_title_bound)
              called == [run EXCEPT !.gateway_calls = @ + 1, !.response = a.response]
          IN  run' = IF a.exc = ""
                     THEN [called EXCEPT !.analysis = a.ret, !.stage = "CUSTOMIZE"]
                     ELSE Raise(called, a.exc)
    /\ Done("tailor_resume", "running", "")
    /\ UNCHANGED <<applications, applications_log_file, resumes_dir, now, session,
                   job_title_bound, assigned_ids, invocations>>

\* CUSTOMIZE: customize_resume
CustomizeStage ==
    /\ Running("CUSTOMIZE")
    /\ \E gateway \in GatewayOutcomes(DocTexts) :
          LET c == customize_resume(gateway)
              called == [run EXCEPT !.gateway_calls = @ + 1, !.response = c.response]
          IN  run' = IF c.exc = ""
                     THEN [called EXCEPT !.tailored_content = c.ret, !.stage = "VALIDATE"]
                     ELSE Raise(called, c.exc)
    /\ Done("tailor_resume", "running", "")
    /\ UNCHANGED <<applications, applications_log_file, resumes_dir, now, session,
                   job_title_bound, assigned_ids, invocations>>

\* VALIDATE: validate_latex, and the abort when it reports failure
ValidateStage ==
    /\ Running("VALIDATE")
    /\ \E out \in ValidateOutcomes :
          run' = IF out = "raise" THEN Raise(run, "OSError")
                 ELSE AfterValidate(run, out = "valid")
    /\ Done("tailor_resume", "running", "")
    /\ UNCHANGED <<applications, applications_log_file, resumes_dir, now, session,
                   job_title_bound, assigned_ids, invocations>>

\* PERSIST: save_tailored_resume and the company stamp
PersistStage(limit, outs, saves) ==
    /\ Running("PERSIST")
    /\ Len(applications) < limit
    /\ \E out \in outs, out2 \in saves :
          LET r == tailor_resume_persist(applications, applications_log_file, resumes_dir,
                                         run.job_title, run.company, now, out, out2)
          IN  /\ Ledger(r)
              /\ resumes_dir' = r.dir
              /\ run' = IF r.exc = ""
                        THEN Return(run, r.ret)
                        ELSE Raise(run, r.exc)
    /\ Done("tailor_resume", "PERSIST", "")
    /\ UNCHANGED <<now, session, job_title_bound, invocations>>

\* save_tailored_resume called on the instance
SaveTailoredResumeCall(limit, titles, outs) ==
    /\ Len(applications) < limit
    /\ \E job_title \in titles, out \in outs :
          LET r == save_tailored_resume(applications, applications_log_file, resumes_dir,
                                        ResumeFile, job_title, now, out)
          IN  /\ Ledger(r)
              /\ resumes_dir' = r.dir
              /\ Done("save_tailored_resume", IF r.exc = "" THEN "path" ELSE "", r.exc)
    /\ UNCHANGED <<now, run, session, job_title_bound, invocations>>

\* update_application_status called on the instance (the command line's --update)
UpdateApplicationStatusCall(ids, args, saves) ==
    /\ \E resume_id \in ids, applied \in BOOLEAN, a \in args, out \in saves :
          LET u == update_application_status(applications, applications_log_file, resume_id,
                                             applied, a.company, a.job_link, a.notes, now, out)
          IN  /\ Ledger(u)
              /\ Done("update_application_status", u.ret, u.exc)
    /\ UNCHANGED <<resumes_dir, now, run, session, job_title_bound, invocations>>

\* update_application_status(resume_id): every optional argument at its default
UpdateIdOnlyCall(ids, saves) ==
    /\ \E resume_id \in ids, out \in saves :
          LET u == update_application_status(applications, applications_log_file, resume_id,
                                             DefaultApplied, None, None, None, now, out)
          IN  /\ Ledger(u)
              /\ Done("update_application_status(id)", u.ret, u.exc)
    /\ UNCHANGED <<resumes_dir, now, run, session, job_title_bound, invocations>>

\* analyze_job_description called on the instance
AnalyzeJobDescriptionCall(texts) ==
    /\ \E gateway \in GatewayOutcomes(texts) :
          LET a == analyze_job_description(gateway, job_title_bound)
          IN  Done("analyze_job_description",
                   [response |-> a.response, analysis |-> a.ret], a.exc)
    /\ UNCHANGED <<applications, applications_log_file, resumes_dir, now, run, session,
                   job_title_bound, assigned_ids, invocations>>

\* customize_resume called on the instance
CustomizeResumeCall(texts) ==
    /\ \E gateway \in GatewayOutcomes(texts) :
          LET c == customize_resume(gateway)
          IN  Done("customize_resume",
                   [response |-> c.response, document |-> c.ret], c.exc)
    /\ UNCHANGED <<applications, applications_log_file, resumes_dir, now, run, session,
                   job_title_bound, assigned_ids, invocations>>

\* POST /tailor: read the resume, analyze, keep the analysis in the session
TailorRoute(titles, companies) ==
    /\ \E ok \in BOOLEAN, gateway \in GatewayOutcomes(AnalysisTexts),
          job_title \in titles, company \in companies :
          LET a == analyze_job_description(gateway, job_title_bound)
          IN  IF ok /\ a.exc = ""
              THEN /\ session' = [pending |-> TRUE, analysis |-> a.ret,
                                  job_title |-> job_title, company |-> company]
                   /\ Done("tailor", "redirect review", "")
              ELSE /\ session' = session
                   /\ Done("tailor", "Error analyzing resume", "")
    /\ UNCHANGED <<applications, applications_log_file, resumes_dir, now, run,
                   job_title_bound, assigned_ids, invocations>>

\* POST /review
ReviewChangesPost(limit, outs) ==
    /\ session.pending
    /\ Len(applications) < limit
    /\ \E out \in outs :
          LET r == review_changes_post(applications, applications_log_file, resumes_dir,
                                       session, now, out)
          IN  /\ Ledger(r)
              /\ resumes_dir' = r.dir
              /\ session' = r.session
              /\ Done("review_changes", r.flash, r.exc)
    /\ UNCHANGED <<now, run, job_title_bound, invocations>>

\* POST /update/<application_id>
UpdateApplication(ids, args, saves) ==
    /\ \E application_id \in ids, applied \in BOOLEAN, a \in args, out \in saves :
          LET u == update_application_status(applications, applications_log_file,
                                             application_id, applied, a.company, a.job_link,
                                             a.notes, now, out)
          IN  /\ Ledger(u)
              /\ Done("update_application",
                      IF u.ret = "True" THEN "Application updated successfully"
                      ELSE IF u.ret = "False" THEN "Failed to update application" ELSE "",
                      u.exc)
    /\ UNCHANGED <<resumes_dir, now, run, session, job_title_bound, invocations>>

\* POST /quick_update/<application_id>
QuickUpdateApplication(ids, saves) ==
    /\ \E application_id \in ids, applied \in BOOLEAN, out \in saves :
          LET i == FirstWithId(applications, application_id)
              u == update_application_status(applications, applications_log_file,
                                             application_id, applied, applications[i].company,
                                             applications[i].job_link, applications[i].notes,
                                             now, out)
          IN  IF i = 0
              THEN /\ UNCHANGED <<applications, applications_log_file, assigned_ids>>
                   /\ Done("quick_update_application", "Application not found", "")
              ELSE /\ Ledger(u)
                   /\ Done("quick_update_application",
                           IF u.exc # "" THEN ""
                           ELSE IF applied THEN "Application marked as applied"
                           ELSE "Application marked as not applied",
                           u.exc)
    /\ UNCHANGED <<resumes_dir, now, run, session, job_title_bound, invocations>>

\* POST /bulk_actions with action 'apply' or 'unapply'
BulkUpdate(ids, fails) ==
    /\ \E selected_ids \in SelectedIdLists(ids), applied \in BOOLEAN, fail_at \in 0..2,
          fail \in fails :
          LET b == bulk_update(applications, applications_log_file, selected_ids, applied,
                               now, fail_at, fail)
          IN  /\ Ledger(b)
              /\ Done("bulk_actions", IF b.exc = "" THEN "Updated" ELSE "", b.exc)
    /\ UNCHANGED <<resumes_dir, now, run, session, job_title_bound, invocations>>

\* POST /bulk_actions with action 'delete'
BulkDelete(ids, saves) ==
    /\ \E selected_ids \in SelectedIdLists(ids), out \in saves :
          LET d == delete_selected(applications, applications_log_file, SetOf(selected_ids), out)
          IN  /\ Ledger(d)
              /\ Done("bulk_delete", d.ret, d.exc)
    /\ UNCHANGED <<resumes_dir, now, run, session, job_title_bound, invocations>>

\* POST /review, up to the prompt: the approved changes of a submitted form and the
\* blocks of the prompt built from them
ReviewSelection(analyses) ==
    /\ \E analysis \in analyses :
          \E form \in SUBSET FormFields(analysis) :
              LET approved_changes == ApprovedChanges(analysis, form)
              IN  Done("approved_changes",
                       [analysis |-> analysis, form |-> form,
                        approved_changes |-> approved_changes,
                        prompt |-> PromptBlocks(approved_changes)], "")
    /\ UNCHANGED <<applications, applications_log_file, resumes_dir, now, run, session,
                   job_title_bound, assigned_ids, invocations>>

\* customize_resume_with_approved(original_latex, approved_changes, ...), up to the prompt
CustomizeWithApprovedPrompt(subsets) ==
    /\ \E approved_changes \in subsets :
          Done("customize_resume_with_approved",
               [approved_changes |-> approved_changes,
                prompt |-> PromptBlocks(approved_changes)], "")
    /\ UNCHANGED <<applications, applications_log_file, resumes_dir, now, run, session,
                   job_title_bound, assigned_ids, invocations>>

\* The list invocation i works on
AppsOf(i) ==
    IF invocations.heap = "shared" THEN applications ELSE invocations.frame[i].applications

Other(i) == 3 - i
InFlight(i, pcs) == invocations.frame[i].pc \in pcs

\* An invocation starts: a new process constructs its instance and loads the ledger
\* from the file, a request of the server uses the instance that is already there
BeginInvocation(heaps) ==
    /\ \E i \in Invocations, heap \in heaps :
          /\ InFlight(i, {"idle"})
          /\ InFlight(Other(i), {"idle"}) \/ heap = invocations.heap
          /\ invocations' =
                [invocations EXCEPT
                    !.heap = heap,
                    !.overlap = @ \/ (heap = "own" /\ InFlight(Other(i), {"loaded", "entry", "appended"})),
                    !.frame[i].pc = "loaded",
                    !.frame[i].applications =
                        IF heap = "own" THEN load_applications_log(applications_log_file).apps
                        ELSE <<>>]
    /\ Done("__init__", "", "")
    /\ UNCHANGED <<applications, applications_log_file, resumes_dir, now, run, session,
                   job_title_bound, assigned_ids>>

\* job_entry = {"id": len(self.applications) + 1, ...}
ComputeEntry ==
    /\ \E i \in Invocations :
          /\ InFlight(i, {"loaded"})
          /\ invocations' =
                [invocations EXCEPT
                    !.overlap = @ \/ (invocations.heap = "shared" /\ InFlight(Other(i), {"entry"})),
                    !.frame[i].pc = "entry",
                    !.frame[i].job_entry =
                        Some(JobEntry(AppsOf(i), ResumeFile,
                                      TailoredPath(ResumeFile, TitleOf(i), now), None,
                                      TitleOf(i), now))]
    /\ Done("save_tailored_resume", "job_entry", "")
    /\ UNCHANGED <<applications, applications_log_file, resumes_dir, now, run, session,
                   job_title_bound, assigned_ids>>

\* self.applications.append(job_entry)
AppendStep ==
    /\ \E i \in Invocations :
          LET apps1 == AppendEntry(AppsOf(i), invocations.frame[i].job_entry[1])
          IN  /\ InFlight(i, {"entry"})
              /\ invocations' =
                    [invocations EXCEPT
                        !.frame[i].pc = "appended",
                        !.frame[i].applications = IF invocations.heap = "own" THEN apps1 ELSE @]
              /\ applications' = IF invocations.heap = "shared" THEN apps1 ELSE applications
              /\ assigned_ids' = assigned_ids \cup {apps1[Len(apps1)].id}
    /\ Done("save_tailored_resume", "appended", "")
    /\ UNCHANGED <<applications_log_file, resumes_dir, now, run, session, job_title_bound>>

\* self._save_applications_log(): the whole file is rewritten from the list
SaveStep ==
    /\ \E i \in Invocations :
          /\ InFlight(i, {"appended"})
          /\ applications_log_file' =
                save_applications_log(AppsOf(i), applications_log_file, "ok").file
          /\ invocations' = [invocations EXCEPT !.frame[i].pc = "done"]
    /\ Done("save_tailored_resume", "path", "")
    /\ UNCHANGED <<applications, resumes_dir, now, run, session, job_title_bound,
                   assigned_ids>>

\* Both invocations are over; two more may start while the ledger has room
NextRound(limit) ==
    /\ \A i \in Invocations : InFlight(i, {"done"})
    /\ Len(applications_log_file.text) + 2 <= limit
    /\ invocations' = [NoInvocations EXCEPT !.heap = invocations.heap,
                                            !.base = Len(applications_log_file.text)]
    /\ Done("exit", "", "")
    /\ UNCHANGED <<applications, applications_log_file, resumes_dir, now, run, session,
                   job_title_bound, assigned_ids>>

----------------------------------------------------------------------------
(* Specifications *)

\* The state after the instance is constructed in an empty output directory.  The name
\* job_title is free in analyze_job_description and looked up among the module's globals:
\* the module binds none, so the lookup succeeds only where the embedding process has
\* bound one.  Both cases are kept.
Start(bound) ==
    /\ applications = <<>>
    /\ applications_log_file = FileAbsent
    /\ resumes_dir = {}
    /\ now = 0
    /\ run = IdleRun
    /\ session = NoSession
    /\ result = [op |-> "__init__", ret |-> "", exc |-> ""]
    /\ job_title_bound \in bound
    /\ assigned_ids = {}
    /\ invocations = NoInvocations

Init == Start(BOOLEAN)

SavesOrTruncates == {"ok", "write_fails"}
PlainAppends == {[write |-> "ok", pdf |-> "no_pdf", save |-> "ok"]}
AppendsOrTruncates ==
    {o \in StrOutcomes : o.save \in {"-", "ok", "write_fails"}}
PlainReviews == {o \in ReviewOutcomes({<<Line("doc")>>}) : o.save \in {"-", "ok"}}

\* The pipeline of the command line: tailor_resume runs on a ledger that earlier runs,
\* deletions and restarts have left
Next ==
    \/ Tick
    \/ Restart
    \/ TailorResumeCall(JobTitleArgs, {None, Some("Acme")})
    \/ ReadStage
    \/ AnalyzeStage
    \/ CustomizeStage
    \/ ValidateStage
    \/ PersistStage(MaxRecords, AppendsOrTruncates, SavesOrTruncates)
    \/ BulkDelete({1}, {"ok"})

Spec == Init /\ [][Next]_vars

\* The review flow of the web application
NextReview ==
    \/ Tick
    \/ TailorRoute({"", "Senior Engineer"}, {"", "Acme"})
    \/ ReviewChangesPost(MaxRecords, ReviewOutcomes(DocTexts))
    \/ BulkDelete({1}, {"ok"})

SpecReview == Init /\ [][NextReview]_vars

\* The ledger alone: appends, updates and deletions of up to MaxLedger records
NextLedger ==
    \/ SaveTailoredResumeCall(MaxLedger, {None}, PlainAppends)
    \/ TailorRoute({""}, {""})
    \/ ReviewChangesPost(MaxLedger, PlainReviews)
    \/ UpdateIdOnlyCall(1..MaxLedger, {"ok"})
    \/ BulkDelete(1..MaxLedger, {"ok"})
    \/ Restart

SpecLedger == Init /\ [][NextLedger]_vars

\* Appends only, from the empty ledger
NextAppend ==
    \/ Tick
    \/ SaveTailoredResumeCall(MaxLedger, {None}, AppendsOrTruncates)
    \/ TailorRoute({""}, {""})
    \/ ReviewChangesPost(MaxLedger, PlainReviews)

SpecAppend == Init /\ [][NextAppend]_vars

\* Updates of the records of a ledger of up to MaxRecords records
NextUpdate ==
    \/ Tick
    \/ SaveTailoredResumeCall(MaxRecords, {None}, PlainAppends)
    \/ UpdateApplicationStatusCall(1..(MaxRecords + 1), UpdateArgs, {"ok"})
    \/ UpdateIdOnlyCall(1..(MaxRecords + 1), {"ok"})
    \/ UpdateApplication(1..(MaxRecords + 1), FormArgs, {"ok"})
    \/ BulkDelete({1}, {"ok"})

SpecUpdate == Start({FALSE}) /\ [][NextUpdate]_vars

\* The status routes of the web application
NextWeb ==
    \/ Tick
    \/ SaveTailoredResumeCall(MaxRecords, {None}, PlainAppends)
    \/ UpdateApplication(1..(MaxRecords + 1), FormArgs, {"ok"})
    \/ QuickUpdateApplication(1..(MaxRecords + 1), {"ok"})
    \/ BulkUpdate(1..MaxRecords, {"write_fails"})
    \/ BulkDelete({1}, {"ok"})
    \/ Restart

SpecWeb == Start({FALSE}) /\ [][NextWeb]_vars

\* The records of a ledger over time: appends, marks and deletions
NextRecords ==
    \/ Tick
    \/ SaveTailoredResumeCall(MaxLedger, {None}, PlainAppends)
    \/ UpdateIdOnlyCall(1..MaxLedger, {"ok"})
    \/ BulkDelete(1..MaxLedger, {"ok"})

SpecRecords == Start({FALSE}) /\ [][NextRecords]_vars

\* The two Gateway calls and their extractions, on their own
NextGateway ==
    \/ AnalyzeJobDescriptionCall(BracedTexts)
    \/ CustomizeResumeCall(FencedTexts)

SpecGateway == Init /\ [][NextGateway]_vars

\* The selection of a review, on its own
NextSelection ==
    \/ ReviewSelection(ReviewAnalyses)
    \/ CustomizeWithApprovedPrompt(ApprovedSubsets)

SpecSelection == Start({TRUE}) /\ [][NextSelection]_vars

\* Two invocations appending at the same time, with no lock between them
NextConcurrent ==
    \/ Tick
    \/ BeginInvocation({"own", "shared"})
    \/ ComputeEntry
    \/ AppendStep
    \/ SaveStep
    \/ NextRound(MaxLedger)

SpecConcurrent == Start({FALSE}) /\ [][NextConcurrent]_vars

----------------------------------------------------------------------------
(* Claims *)

LedgerUnchanged == UNCHANGED <<applications, applications_log_file, resumes_dir>>

\* The record an update of resume_id reaches: the first one carrying the id
Target(resume_id) ==
    CHOOSE i \in DOMAIN applications :
        /\ applications[i].id = resume_id
        /\ \A j \in 1..(i - 1) : applications[j].id # resume_id

Absent(x) == x = None \/ x = Some("")

\* C1: the ids of the records of the ledger are pairwise distinct in every reachable
\* state.
C1_UniqueIds ==
    \A i, j \in DOMAIN applications : i # j => applications[i].id # applications[j].id

\* C2: an id that an append once assigned is never assigned again by a later append,
\* also after the record carrying it was deleted.
C2_IdsNeverReused ==
    [][(Len(applications') = Len(applications) + 1 /\ result'.op # "__init__")
          => applications'[Len(applications')].id \notin assigned_ids]_vars

\* C3: from the empty ledger, with appends only, the k-th append assigns id k: the ids
\* of the ledger are 1, 2, ..., n in order.
C3_GapFreeIds ==
    /\ \A i \in DOMAIN applications : applications[i].id = i
    /\ assigned_ids = 1..Len(applications)

C3_Witness ==
    /\ Len(applications) = 3
    /\ applications[3].id = 3
    /\ applications[3].date_created > applications[1].date_created

\* C4: when the validator reports failure, tailor_resume raises the validation error and
\* writes nothing: no stage up to and including VALIDATE changes the ledger in memory,
\* the ledger file or the saved files.
C4_ValidationFailureAborts ==
    [][/\ (run.status = "running" /\ run.stage = "VALIDATE" /\ run'.is_valid = Some(FALSE))
            => (/\ run'.status = "error"
                /\ run'.exc = "ValueError: does not compile"
                /\ LedgerUnchanged)
       /\ (run' # run /\ run'.stage \in {"READ", "ANALYZE", "CUSTOMIZE", "VALIDATE"})
            => LedgerUnchanged]_vars

C4_Witness ==
    /\ run.status = "error"
    /\ run.is_valid = Some(FALSE)
    /\ Len(applications) = 1
    /\ applications_log_file = FileJson(applications)

\* C5: a run that ends with an error has appended no record to the ledger, whatever the
\* stage of the error: a step of tailor_resume that raises, a call of the PERSIST
\* operation save_tailored_resume that raises, and a POST of the review that reports an
\* error all leave the records of the ledger as they were.
C5_FailedRunAppendsNothing ==
    [][/\ (run.status = "running" /\ run'.status = "error")
            => applications' = applications
       /\ (result'.op = "save_tailored_resume" /\ result'.exc # "")
            => applications' = applications
       /\ (result'.op = "review_changes"
           /\ (result'.exc # "" \/ result'.ret = "Error tailoring resume"))
            => applications' = applications]_vars

\* C6: a run whose resume is readable, whose Gateway answers are a parseable analysis and
\* a document, and whose validation succeeds, ends without error (an error is always one
\* of those failures) and adds exactly one record, with the job title, applied = false
\* and a path holding the base name and the date of the day.
C6_GoodRunAddsOneRecord ==
    [][/\ (run.status = "running" /\ run'.status = "error")
            => run'.exc \in {"OSError", "APIError", "ValueError", "JSONDecodeError",
                             "AttributeError", "ValueError: does not compile"}
       /\ (run.status = "running" /\ run'.status = "done")
            => /\ Len(applications') = Len(applications) + 1
               /\ LET new == applications'[Len(applications')]
                  IN  /\ new.job_title = OrDefault(run.job_title, UntitledPosition)
                      /\ new.applied = FALSE
                      /\ new.tailored_resume.base = "R"
                      /\ new.tailored_resume.date = Some(DateStr(now))]_vars

\* C7: update_application_status with an id no record carries returns false, raises
\* nothing and changes neither the ledger in memory nor the ledger file.
C7_UnknownIdUpdatesNothing ==
    \A resume_id \in 0..(MaxRecords + 2), applied \in BOOLEAN, a \in UpdateArgs,
       out \in SaveOutcomes :
        resume_id \notin IdsOf(applications) =>
            LET u == update_application_status(applications, applications_log_file,
                                               resume_id, applied, a.company, a.job_link,
                                               a.notes, now, out)
            IN  /\ u.ret = "False"
                /\ u.exc = ""
                /\ u.apps = applications
                /\ u.file = applications_log_file

C7_Witness ==
    /\ result = [op |-> "update_application_status", ret |-> "False", exc |-> ""]
    /\ Len(applications) = 1
    /\ applications[1].company = Some("Acme")
    /\ applications_log_file = FileJson(applications)

\* C8: update_application_status never clears a field by omission: for company, job_link
\* and notes, an absent or empty argument keeps the record's value and a non-empty one
\* becomes the record's value; no other record changes.
C8_MergeKeepsOmittedFields ==
    \A resume_id \in IdsOf(applications), company \in CompanyArgs,
       job_link \in JobLinkArgs, notes \in NotesArgs :
        LET i == Target(resume_id)
            u == update_application_status(applications, applications_log_file, resume_id,
                                           FALSE, company, job_link, notes, now, "ok")
        IN  /\ u.ret = "True"
            /\ u.apps[i].company = IF Absent(company) THEN applications[i].company ELSE company
            /\ u.apps[i].job_link = IF Absent(job_link) THEN applications[i].job_link ELSE job_link
            /\ u.apps[i].notes = IF Absent(notes) THEN applications[i].notes ELSE notes
            /\ \A k \in DOMAIN applications \ {i} : u.apps[k] = applications[k]

C8_Witness ==
    /\ result.op = "update_application"
    /\ result.ret = "Application updated successfully"
    /\ \E i \in DOMAIN applications :
          /\ applications[i].company = Some("Acme")
          /\ applications[i].job_link = Some("https://jobs/1")
          /\ applications[i].notes = Some("call back")

C10_AppliedStampsDate ==
    \A resume_id \in IdsOf(applications), applied \in BOOLEAN, a \in UpdateArgs :
        LET i == Target(resume_id)
            u == update_application_status(applications, applications_log_file, resume_id,
                                           applied, a.company, a.job_link, a.notes, now, "ok")
        IN  IF applied
            THEN u.apps[i].applied = TRUE /\ u.apps[i].application_date = Some(now)
            ELSE /\ u.apps[i].applied = applications[i].applied
                 /\ u.apps[i].application_date = applications[i].application_date

C10_Witness ==
    /\ result = [op |-> "update_application_status", ret |-> "True", exc |-> ""]
    /\ \E i \in DOMAIN applications :
          /\ applications[i].applied
          /\ applications[i].application_date = Some(1)
          /\ applications[i].date_created = 0
          /\ now = 1

\* The fields a record is created with
Frozen(app) ==
    [id |-> app.id, date_created |-> app.date_created,
     original_resume |-> app.original_resume, tailored_resume |-> app.tailored_resume,
     pdf_resume |-> app.pdf_resume, job_title |-> app.job_title]

\* s is t with some of its elements left out
RECURSIVE IsSubSeq(_, _)
IsSubSeq(s, t) ==
    IF s = <<>> THEN TRUE
    ELSE IF t = <<>> THEN FALSE
    ELSE IF Head(s) = Head(t) THEN IsSubSeq(Tail(s), Tail(t))
    ELSE IsSubSeq(s, Tail(t))

\* C11: no step changes the id, date_created, original_resume, tailored_resume,
\* pdf_resume or job_title of a record that exists: an update or an append leaves these
\* fields of every record in place, a deletion leaves the surviving records whole.
C11_CreatedFieldsNeverChange ==
    [][IF Len(applications') >= Len(applications)
       THEN \A i \in DOMAIN applications :
                Frozen(applications'[i]) = Frozen(applications[i])
       ELSE IsSubSeq(applications', applications)]_vars

C11_Witness ==
    /\ Len(applications) = 2
    /\ applications[1].date_created = 0
    /\ applications[1].application_date = Some(1)
    /\ applications[2].date_created = 1
    /\ now = 1

\* C12: the bulk delete leaves exactly the records whose id is not selected, in their
\* order and unchanged, and saves that list to the ledger file.
C12_DeleteKeepsTheRest ==
    \A selected_ids \in SUBSET (1..(MaxLedger + 1)) :
        LET d == delete_selected(applications, applications_log_file, selected_ids, "ok")
            keep == {i \in DOMAIN applications : applications[i].id \notin selected_ids}
            nth(k) == CHOOSE i \in keep : Cardinality({j \in keep : j <= i}) = k
        IN  /\ d.exc = ""
            /\ Len(d.apps) = Cardinality(keep)
            /\ \A k \in 1..Cardinality(keep) : d.apps[k] = applications[nth(k)]
            /\ d.file = FileJson(d.apps)

C12_Witness ==
    /\ result = [op |-> "bulk_delete", ret |-> "deleted", exc |-> ""]
    /\ Len(applications) = 1
    /\ applications[1].id = 2
    /\ applications[1].applied
    /\ applications_log_file = FileJson(applications)

C15_SaveIsAtomic ==
    [][\/ applications_log_file' = applications_log_file
       \/ applications_log_file' = FileJson(applications')]_vars

\* C16: the document-mode extraction never fails: whatever the response text of a
\* Gateway call that succeeded, customize_resume raises nothing and returns a document.
C16_DocumentExtractionNeverFails ==
    (result.op = "customize_resume" /\ result.ret.response # None)
        => result.exc = "" /\ result.ret.document # None

\* C17: the JSON-mode extraction is strict: when the response has no span from a first
\* opening brace to a last closing brace, or the span does not parse, the call of
\* analyze_job_description raises the extraction error (ValueError or JSONDecodeError)
\* and returns no analysis.
C17_JsonExtractionIsStrict ==
    (/\ result.op = "analyze_job_description"
     /\ result.ret.response # None
     /\ LET span == JsonSpan(result.ret.response[1])
        IN  span = None \/ ~ValidJson(span[1]))
        => /\ result.exc \in {"ValueError", "JSONDecodeError"}
           /\ result.ret.analysis = None

\* C18: nothing is retried: a run has called the Gateway at most once when it is in or
\* has failed in ANALYZE and at most twice afterwards, a run enters CUSTOMIZE or
\* VALIDATE only with the response of a call that succeeded, a failed call ends the run
\* with the error of the call and the ledger untouched, and a run that ended in an error
\* executes no further stage.
C18_NoRetry ==
    [][/\ run'.gateway_calls <= (IF run'.stage \in {"idle", "READ"} THEN 0
                                 ELSE IF run'.stage = "ANALYZE" THEN 1 ELSE 2)
       /\ (run.status = "running" /\ run'.gateway_calls = run.gateway_calls + 1)
            => \/ /\ run'.status = "running"
                  /\ run'.response # None
                  /\ run.stage = "ANALYZE" => run'.stage = "CUSTOMIZE" /\ run'.analysis # None
                  /\ run.stage = "CUSTOMIZE"
                       => run'.stage = "VALIDATE" /\ run'.tailored_content # None
               \/ /\ run'.status = "error"
                  /\ run'.stage = run.stage
                  /\ run'.exc # ""
                  /\ LedgerUnchanged
       /\ (run.status = "running" /\ run'.stage # run.stage /\ run'.stage # "idle")
            => /\ run'.status = "running"
               /\ run.stage \in {"ANALYZE", "CUSTOMIZE"}
                    => run'.gateway_calls = run.gateway_calls + 1
       /\ (run.status = "error" /\ run' # run) => run'.stage \in {"READ", "idle"}]_vars

C18_Witness ==
    /\ run.status = "error"
    /\ run.stage = "ANALYZE"
    /\ run.exc = "APIError"
    /\ run.gateway_calls = 1
    /\ ~job_title_bound

\* C19: in the review flow the approved changes never carry a title change: for the
\* analysis the session holds and every set of checkboxes a POST can send, the
\* title_suggestions of the approved changes is empty and the prompt built from them has
\* no block of job title modifications.
C19_NoTitleChangeApproved ==
    session.pending =>
        \A form \in SUBSET FormFields(session.analysis[1]) :
            LET approved_changes == ApprovedChanges(session.analysis[1], form)
                prompt == PromptBlocks(approved_changes)
            IN  /\ approved_changes.title_suggestions = {}
                /\ \A i \in DOMAIN prompt : prompt[i].heading # "Job Title Modifications"

C19_Witness ==
    /\ session.pending
    /\ Get(session.analysis[1], "title_suggestions", {}) # {}
    /\ <<"title", "Software_Developer">> \in FormFields(session.analysis[1])
    /\ result.op = "review_changes"
    /\ result.ret = "LaTeX compilation failed"

\* C20: a record carries a pdf_resume only if the PDF compilation of its own run produced
\* a PDF: whatever the ledger and the files already there, a save_tailored_resume or a
\* POST of the review whose compilation produces no PDF appends a record without
\* pdf_resume.
C20_PdfOnlyIfCompiled ==
    /\ \A out \in StrOutcomes :
          LET r == save_tailored_resume(applications, applications_log_file, resumes_dir,
                                        ResumeFile, None, now, out)
          IN  (Len(r.apps) > Len(applications) /\ out.pdf # "pdf")
                  => r.apps[Len(r.apps)].pdf_resume = None
    /\ session.pending =>
          \A out \in ReviewOutcomes(DocTexts) :
              LET r == review_changes_post(applications, applications_log_file, resumes_dir,
                                           session, now, out)
              IN  (Len(r.apps) > Len(applications) /\ out.pdf # "pdf")
                      => r.apps[Len(r.apps)].pdf_resume = None

\* The records of the ledger file
FileRecords == load_applications_log(applications_log_file).apps

BothDone == \A i \in Invocations : InFlight(i, {"done"})

\* A record appended by one of the two invocations is missing from the file
RecordLost == Len(FileRecords) < invocations.base + 2

\* Two records the two invocations created carry the same id
SameIdTwice ==
    \E k, l \in DOMAIN FileRecords :
        /\ k > invocations.base
        /\ l > k
        /\ FileRecords[k].id = FileRecords[l].id

\* C21: nothing locks the ledger: when two invocations have overlapped (two processes that
\* both loaded the file before either rewrote it, or two requests on the shared list that
\* both computed their id before either appended) and both are over, a record one of them
\* appended is missing from the file or their two records carry the same id.
C21_OverlapLosesUpdate ==
    (BothDone /\ invocations.overlap) => (RecordLost \/ SameIdTwice)

C21_Witness ==
    /\ BothDone
    /\ invocations.heap = "own"
    /\ invocations.overlap
    /\ RecordLost
    /\ invocations.frame[1].job_entry[1].id = invocations.frame[2].job_entry[1].id

\* The outcomes of a POST of /review in which every step succeeds
GoodReviews ==
    {o \in ReviewOutcomes(DocTexts) :
        o.validate = "valid" /\ o.pdf \in {"pdf", "no_pdf"} /\ o.save = "ok"
        /\ customize_resume(o.gateway).exc = ""}

\* C22: in the review flow a validation failure keeps the pending state (analysis, job
\* title, company) and the ledger as they were, so that another POST of /review, with no
\* new ANALYZE, can still append its record; the pending state is cleared only by a POST
\* that has appended a record and saved the ledger.
C22_PendingSurvivesValidationFailure ==
    [][/\ (session.pending /\ result'.op = "review_changes"
                           /\ result'.ret = "LaTeX compilation failed")
            => /\ session' = session
               /\ LedgerUnchanged
               /\ \A out \in GoodReviews :
                     LET r == review_changes_post(applications', applications_log_file',
                                                  resumes_dir', session', now', out)
                     IN  /\ Len(r.apps) = Len(applications') + 1
                         /\ r.session = NoSession
       /\ (session.pending /\ ~session'.pending)
            => /\ Len(applications') = Len(applications) + 1
               /\ applications_log_file' = FileJson(applications')
               /\ result'.ret = "redirect result"]_vars

C22_Witness ==
    /\ session.pending
    /\ session.analysis # None
    /\ session.company = "Acme"
    /\ result.op = "review_changes"
    /\ result.ret = "LaTeX compilation failed"
    /\ applications = <<>>

\* The elements of a list at the positions whose checkbox (prefix, index from 0) is in the form
AtChecked(list, prefix, form) ==
    LET idx == SelectSeq([i \in 1..Len(list) |-> i], LAMBDA i : <<prefix, i - 1>> \in form)
    IN  [j \in 1..Len(idx) |-> list[idx[j]]]

\* C23: the approved subset of a review holds exactly the selected suggestions: the key
\* skill (missing skill) at index i iff the checkbox of its category and index i is in the
\* form, an experience suggestion or content addition iff the checkbox of its key is.
C23_SelectionMapsBack ==
    result.op = "approved_changes" =>
        LET analysis == result.ret.analysis
            form == result.ret.form
            approved_changes == result.ret.approved_changes
        IN  /\ approved_changes.key_skills
                  = AtChecked(Get(analysis, "key_skills", <<>>), "skill", form)
            /\ approved_changes.missing_skills
                  = AtChecked(Get(analysis, "missing_skills", <<>>), "missing", form)
            /\ \A kv \in Get(analysis, "experience_suggestions", {}) :
                  kv \in approved_changes.experience_suggestions
                      <=> <<"exp", Underscored(kv[1])>> \in form
            /\ \A kv \in Get(analysis, "content_additions", {}) :
                  kv \in approved_changes.content_additions
                      <=> <<"add", Underscored(kv[1])>> \in form

\* The interior of the first complete fenced block of a text whose opening line is one of
\* `opens`, None when the text has no such block
BlockInterior(text, opens) ==
    LET found == {open \in opens : FenceSearch(text, open) # None}
    IN  IF found = {} THEN None ELSE FenceSearch(text, CHOOSE open \in found : TRUE)

\* C24: the document-mode extraction goes by precedence: the interior of the fenced block
\* labelled latex if the response has one; else the interior of its fenced block, whatever
\* its label, if it has one; else the response text as it is.
C24_ExtractionPrecedence ==
    (result.op = "customize_resume" /\ result.ret.response # None) =>
        LET text == result.ret.response[1]
            latex == BlockInterior(text, {<<Fence, Latex, NL>>})
            any == BlockInterior(text, {<<Fence, NL>>, <<Fence, Label, NL>>})
        IN  /\ result.exc = ""
            /\ result.ret.document = IF latex # None THEN latex
                                     ELSE IF any # None THEN any
                                     ELSE Some(text)

\* The blocks of a prompt that carry the header of category c
BlocksOf(prompt, c) == {i \in DOMAIN prompt : prompt[i].heading = Categories[c].heading}

\* C25: the prompt built from an approved-changes dict has, for each suggestion category,
\* one block under the category's header listing all its suggestions iff the category is
\* not empty in the dict; a category that is empty or missing gives no header, and the
\* prompt has no other block.
C25_PromptBlocksPerCategory ==
    result.op \in {"approved_changes", "customize_resume_with_approved"} =>
        LET approved_changes == result.ret.approved_changes
            prompt == result.ret.prompt
        IN  /\ \A c \in DOMAIN Categories :
                  LET items == Get(approved_changes, Categories[c].key, Categories[c].empty)
                  IN  IF items = Categories[c].empty
                      THEN BlocksOf(prompt, c) = {}
                      ELSE /\ Cardinality(BlocksOf(prompt, c)) = 1
                           /\ \A i \in BlocksOf(prompt, c) : prompt[i].items = items
            /\ \A i \in DOMAIN prompt : \E c \in DOMAIN Categories : i \in BlocksOf(prompt, c)

C25_Witness ==
    /\ result.op = "customize_resume_with_approved"
    /\ "key_skills" \notin DOMAIN result.ret.approved_changes
    /\ "missing_skills" \in DOMAIN result.ret.approved_changes
    /\ result.ret.approved_changes.missing_skills = <<>>
    /\ Len(result.ret.prompt) = 3

\* C26: on every ledger the program can have reached, deletions included, a tailor_resume
\* run given a company that persists successfully leaves the earlier records as they were
\* and ends with a new last record whose company is the given one, with applied false
\* and no application_date.
C26_CompanyStampsNewRecord ==
    \A out \in StrOutcomes, company \in {Some("Acme")} :
        LET r == tailor_resume_persist(applications, applications_log_file, resumes_dir,
                                       None, company, now, out, "ok")
            n == Len(applications)
        IN  (r.exc = "" /\ r.ret # None) =>
                /\ Len(r.apps) = n + 1
                /\ SubSeq(r.apps, 1, n) = applications
                /\ r.apps[n + 1].company = company
                /\ r.apps[n + 1].applied = FALSE
                /\ r.apps[n + 1].application_date = None

C28_AppliedIffDated ==
    /\ \A i \in DOMAIN applications :
          applications[i].applied <=> applications[i].application_date # None
    /\ \A i \in DOMAIN FileRecords :
          FileRecords[i].applied <=> FileRecords[i].application_date # None
    /\ LET entry == ReviewEntry(applications, ResumeFile, ReviewPath(ResumeFile), None,
                                "", "Acme", now)
       IN  ~entry.applied /\ entry.application_date = None

C28_Witness ==
    /\ result = [op |-> "update_application", ret |-> "Application updated successfully",
                 exc |-> ""]
    /\ Len(applications) = 1
    /\ applications[1].applied
    /\ applications[1].application_date = Some(now)
    /\ applications[1].company = Some("Acme")
    /\ FileRecords = applications

====
